---- MODULE Spec2Model ----
(***************************************************************************)
(* A model of mysh.py: the line parser (parse_command_line), the pipeline  *)
(* driver (run_pipeline) and the read loop (main).                         *)
(*                                                                         *)
(* Text is a sequence of lexemes.  A lexeme is one character that the      *)
(* parser treats specially (" ", "|", ">", a quote, a backslash) or a word *)
(* standing for a fixed run of ordinary characters ("pwd", "exit", "f").   *)
(* Adjacent words concatenate exactly as adjacent characters do.           *)
(***************************************************************************)
EXTENDS Integers, Sequences, FiniteSets, TLC

\* ------------------------------------------------------------------ bounds
\* Longest line of the exhaustive parser specification (ParseSpec).
MaxLineLen == 5
\* Most pipe-separated segments of a line typed at the prompt (Spec).
MaxSegs == 3
\* Most lines the read loop accepts in one behaviour (Spec).
MaxLines == 2

\* ---------------------------------------------------------------- lexemes
SP == " "
PIPE == "|"
GT == ">"
DQ == "\""
SQ == "'"
BS == "\\"

\* shlex: self.quotes, self.escape, self.escapedquotes, self.whitespace
Quotes == {DQ, SQ}
Escape == {BS}
EscapedQuotes == {DQ}
Whitespace == {SP}

\* Python's None (no lexeme is called "None").
None == <<"None">>

\* ------------------------------------------------------- string primitives
RECURSIVE LStrip(_)
LStrip(s) ==
    IF s # <<>> /\ Head(s) \in Whitespace THEN LStrip(Tail(s)) ELSE s

RECURSIVE RStrip(_)
RStrip(s) ==
    IF s # <<>> /\ s[Len(s)] \in Whitespace
    THEN RStrip(SubSeq(s, 1, Len(s) - 1))
    ELSE s

\* str.strip()
Strip(s) == RStrip(LStrip(s))

\* str.split(sep) for a one-lexeme separator: always at least one piece.
RECURSIVE SplitOn(_, _)
SplitOn(s, sep) ==
    IF \E k \in 1..Len(s) : s[k] = sep
    THEN LET k == CHOOSE j \in 1..Len(s) :
                      s[j] = sep /\ \A h \in 1..(j - 1) : s[h] # sep
         IN  <<SubSeq(s, 1, k - 1)>> \o SplitOn(SubSeq(s, k + 1, Len(s)), sep)
    ELSE <<s>>

\* `sub in s`: the positions at which sub occurs in s.
Occurrences(s, sub) ==
    {k \in 1..(Len(s) - Len(sub) + 1) : SubSeq(s, k, k + Len(sub) - 1) = sub}

Contains(s, sub) == Occurrences(s, sub) # {}

FirstOccurrence(s, sub) ==
    CHOOSE k \in Occurrences(s, sub) : \A j \in Occurrences(s, sub) : k <= j

\* s.split(sub, 1) when sub occurs in s: <<before, after>>.
SplitOnce(s, sub) ==
    LET k == FirstOccurrence(s, sub)
    IN  <<SubSeq(s, 1, k - 1), SubSeq(s, k + Len(sub), Len(s))>>

\* str.split()[0] of a string that holds a non-whitespace lexeme.
RECURSIVE FirstWord(_)
FirstWord(s) ==
    LET t == LStrip(s)
    IN  IF t = <<>> \/ Head(t) \in Whitespace
        THEN <<>>
        ELSE <<Head(t)>> \o (IF Len(t) > 1 /\ t[2] \notin Whitespace
                            THEN FirstWord(Tail(t))
                            ELSE <<>>)

\* --------------------------------------------------------------- shlex.split
\* shlex.split(s): shlex(s, posix=True), whitespace_split=True, commenters=''.
\* The token loop of read_token, run over the whole string.  state is " "
\* (between tokens), "a" (in a word), a quote, or the escape character.
RECURSIVE shlex_read(_, _, _, _, _, _, _)
shlex_read(s, i, state, escapedstate, token, quoted, toks) ==
    IF i > Len(s)
    THEN IF state \in Quotes \/ state \in Escape
         THEN [raised |-> TRUE, argv |-> <<>>]
         ELSE [raised |-> FALSE,
               argv |-> IF token # <<>> \/ quoted
                        THEN Append(toks, token) ELSE toks]
    ELSE LET c == s[i] IN
         IF state = " "
         THEN IF c \in Whitespace
              THEN shlex_read(s, i + 1, " ", escapedstate, token, quoted, toks)
              ELSE IF c \in Escape
              THEN shlex_read(s, i + 1, c, "a", token, quoted, toks)
              ELSE IF c \in Quotes
              THEN shlex_read(s, i + 1, c, escapedstate, token, quoted, toks)
              ELSE shlex_read(s, i + 1, "a", escapedstate, <<c>>, quoted, toks)
         ELSE IF state \in Quotes
         THEN IF c = state
              THEN shlex_read(s, i + 1, "a", escapedstate, token, TRUE, toks)
              ELSE IF c \in Escape /\ state \in EscapedQuotes
              THEN shlex_read(s, i + 1, c, state, token, TRUE, toks)
              ELSE shlex_read(s, i + 1, state, escapedstate,
                              Append(token, c), TRUE, toks)
         ELSE IF state \in Escape
         THEN LET kept == IF escapedstate \in Quotes
                             /\ c # state /\ c # escapedstate
                          THEN Append(token, state) ELSE token
              IN  shlex_read(s, i + 1, escapedstate, escapedstate,
                             Append(kept, c), quoted, toks)
         ELSE \* state = "a"
              IF c \in Whitespace
              THEN IF token # <<>> \/ quoted
                   THEN shlex_read(s, i + 1, " ", escapedstate, <<>>, FALSE,
                                   Append(toks, token))
                   ELSE shlex_read(s, i + 1, " ", escapedstate, token, quoted,
                                   toks)
              ELSE IF c \in Quotes
              THEN shlex_read(s, i + 1, c, escapedstate, token, quoted, toks)
              ELSE IF c \in Escape
              THEN shlex_read(s, i + 1, c, "a", token, quoted, toks)
              ELSE shlex_read(s, i + 1, "a", escapedstate, Append(token, c),
                              quoted, toks)

\* [raised, argv]: raised stands for ValueError ("No closing quotation",
\* "No escaped character").
ShlexSplit(s) == shlex_read(s, 1, " ", " ", <<>>, FALSE, <<>>)

\* ------------------------------------------------------ parse_command_line
\* `rest.strip().split()[0] if rest.strip() else None`
TargetOf(rest) == IF Strip(rest) # <<>> THEN FirstWord(Strip(rest)) ELSE None

\* ScanRedirect with the operators looked for in the other order.
ScanRedirect_GtFirst(part) ==
    IF Contains(part, <<GT>>)
    THEN LET sp == SplitOnce(part, <<GT>>)
         IN  [text |-> sp[1], out_path |-> TargetOf(sp[2]), append |-> FALSE]
    ELSE [text |-> part, out_path |-> None, append |-> FALSE]

\* The redirection scan of one segment: >> is looked for before >.
\* [text, out_path, append]
ScanRedirect(part) ==
    IF Contains(part, <<GT, GT>>)
    THEN LET sp == SplitOnce(part, <<GT, GT>>)
         IN  [text |-> sp[1], out_path |-> TargetOf(sp[2]), append |-> TRUE]
    ELSE IF Contains(part, <<GT>>)
    THEN LET sp == SplitOnce(part, <<GT>>)
         IN  [text |-> sp[1], out_path |-> TargetOf(sp[2]), append |-> FALSE]
    ELSE [text |-> part, out_path |-> None, append |-> FALSE]

\* Parts with the empty parts left out.
Parts_DropEmpty(line) ==
    LET raw == SplitOn(line, PIPE)
    IN  SelectSeq([k \in 1..Len(raw) |-> Strip(raw[k])],
                  LAMBDA p : p # <<>>)

\* `parts = [p.strip() for p in line.split("|")]`
Parts(line) ==
    LET raw == SplitOn(line, PIPE)
    IN  [k \in 1..Len(raw) |-> Strip(raw[k])]

\* One entry of the pipeline, or the ValueError of shlex.split.
ParsePart(part) ==
    LET r == ScanRedirect(part)
        sh == ShlexSplit(r.text)
    IN  [raised |-> sh.raised,
         stage |-> [argv |-> sh.argv, out_path |-> r.out_path,
                    append |-> r.append]]

\* [raised, pipeline]: the list of (argv, out_path, append), one per part, or
\* the exception of the first part whose tokenisation raises.
parse_command_line(line) ==
    LET parts == Parts(line)
        res == [k \in 1..Len(parts) |-> ParsePart(parts[k])]
    IN  IF \E k \in 1..Len(parts) : res[k].raised
        THEN [raised |-> TRUE, pipeline |-> <<>>]
        ELSE [raised |-> FALSE,
              pipeline |-> [k \in 1..Len(parts) |-> res[k].stage]]

\* ------------------------------------------------------------ environment
\* Text produced by commands: what os.getcwd() prints, what the launchable
\* program writes, what read_file_text returns for an unreadable file.
CWD == <<"CWD">>
PROG_OUT == <<"OUT">>
READ_ERROR == <<"Error reading file">>

\* A file that does not exist.
Absent == <<"Absent">>

\* The paths at which a file can be created and written; opening any other
\* path raises (a missing directory, no permission).
FilePaths == {<<"f">>}

\* The names in BUILTINS that the model keeps.
BUILTINS == {<<"pwd">>, <<"cat">>, <<"touch">>, <<"exit">>, <<"quit">>}

\* The programs subprocess.Popen can launch; any other name raises
\* FileNotFoundError.
Launchable == {<<"prog">>}

\* The segments a line typed at the prompt is made of.
Segments ==
    { <<"pwd">>, <<"cat">>, <<"exit">>, <<"nosuch">>, <<"prog">>,
      <<"touch", SP, "x">>, <<"pwd", GT, GT, "f">>, <<"pwd", GT, "x">>, <<>> }

\* Whole lines beside the pipelines of Segments: the help line, the alias of
\* exit, a blank line, an unbalanced quote, a trailing backslash, a quoted
\* pipe, touch without arguments, truncating redirections, a file read back.
OtherLines ==
    { <<"help">>, <<"quit">>, <<SP>>, <<DQ, "pwd">>, <<"pwd", SP, BS>>,
      <<"cat", SP, DQ, "f", PIPE, "f", DQ>>,
      <<"touch">>, <<"touch", PIPE, "pwd">>, <<"touch", SP, "f">>,
      <<"pwd", SP, GT, SP, "f">>,
      <<"pwd", SP, GT, SP, "f", PIPE, "pwd", SP, GT, SP, "f">>,
      <<"pwd", GT, GT, "f", PIPE, "pwd", GT, GT, "f", PIPE,
        "pwd", SP, GT, SP, "f">>,
      <<"pwd", SP, GT, GT, SP, "f", SP, "x">>,
      <<"pwd", GT, "x", GT, GT, "f">>,
      <<"cat", SP, "f", PIPE, "cat", GT, "f">> }

RECURSIVE Join(_)
Join(segs) ==
    IF Len(segs) = 1 THEN segs[1]
    ELSE segs[1] \o <<PIPE>> \o Join(Tail(segs))

InputLines ==
    {Join(segs) : segs \in UNION {[1..n -> Segments] : n \in 1..MaxSegs}}
        \cup OtherLines

\* Every line of at most MaxLineLen lexemes over the parser's alphabet that
\* main hands to parse_command_line: `if not line.strip(): continue` comes
\* first.
ParseAlphabet == {SP, PIPE, GT, DQ, SQ, BS, "a"}
AllLines ==
    {l \in UNION {[1..n -> ParseAlphabet] : n \in 0..MaxLineLen} :
         Strip(l) # <<>>}

\* ------------------------------------------------------------------ state
VARIABLES
    pc,          \* "continue" (top of main's loop), "prompt", "stage",
                 \* "builtin", "external", "done";
                 \* "parse", "parsed", "parse_raised" in ParseSpec
    line,        \* the line last read
    pipeline,    \* parse_command_line(line)
    i,           \* index of the stage run_pipeline is at (1-based)
    data,        \* run_pipeline's data: None or text
    out_text,    \* run_pipeline's out_text of the last completed stage
    sys_stdout,  \* sys.stdout: "real", "buf" (this stage's StringIO), "stale"
    old_stdout,  \* run_pipeline's old_stdout
    printed,     \* writes to sys.stdout in this loop iteration: [sink, text]
    stderr,      \* diagnostics of this loop iteration: [idx, name, kind]
    files,       \* FilePaths -> text or Absent
    calls,       \* stages started in this run: [idx, cmd, stdin]
    rets,        \* stages completed in this run: [idx, ret]
    outcome,     \* how the last loop iteration ended
    nlines,      \* lines read so far
    proc         \* the process of run_pipeline's proc: "None" (no Popen in
                 \* this iteration), "running", "exited"

vars == <<pc, line, pipeline, i, data, out_text, sys_stdout, old_stdout,
          printed, stderr, files, calls, rets, outcome, nlines, proc>>

\* ------------------------------------------------------------------ helpers
\* read_file_text(path)
read_file_text(fs, path) ==
    IF path \in FilePaths /\ fs[path] # Absent THEN fs[path] ELSE READ_ERROR

\* write_to_file_text / open(path, mode).write(text) on a path that opens.
Written(fs, path, text, append) ==
    [fs EXCEPT ![path] = IF append /\ fs[path] # Absent
                         THEN fs[path] \o text ELSE text]

\* Python truthiness of data / out_path.
Truthy(x) == x # None /\ x # <<>>

Diag(idx, name, kind) == [idx |-> idx, name |-> name, kind |-> kind]

\* --------------------------------------------------------------- builtins
\* Each handler: [kind, out, diags, files]; kind is "return", "raise"
\* (an Exception escapes the handler) or "exit" (SystemExit).
builtin_pwd(args, stdin, fs) ==
    [kind |-> "return", out |-> CWD, diags |-> <<>>, files |-> fs]

RECURSIVE CatFiles(_, _)
CatFiles(args, fs) ==
    IF args = <<>> THEN <<>>
    ELSE read_file_text(fs, Head(args)) \o CatFiles(Tail(args), fs)

builtin_cat(args, stdin, fs) ==
    IF args = <<>> /\ stdin # None
    THEN [kind |-> "return", out |-> stdin, diags |-> <<>>, files |-> fs]
    ELSE [kind |-> "return", out |-> CatFiles(args, fs), diags |-> <<>>,
          files |-> fs]

\* Path(f).touch(exist_ok=True) for each argument, stopping at the first
\* that raises.
RECURSIVE TouchAll(_, _)
TouchAll(args, fs) ==
    IF args = <<>> THEN [kind |-> "return", files |-> fs]
    ELSE IF Head(args) \notin FilePaths THEN [kind |-> "raise", files |-> fs]
    ELSE TouchAll(Tail(args),
                  [fs EXCEPT ![Head(args)] =
                       IF fs[Head(args)] = Absent THEN <<>>
                       ELSE fs[Head(args)]])

builtin_touch(args, stdin, fs) ==
    IF args = <<>>
    THEN [kind |-> "return", out |-> <<>>,
          diags |-> <<"touch: missing args">>, files |-> fs]
    ELSE LET t == TouchAll(args, fs)
         IN  [kind |-> t.kind, out |-> <<>>, diags |-> <<>>,
              files |-> t.files]

builtin_exit(args, stdin, fs) ==
    [kind |-> "exit", out |-> <<>>, diags |-> <<>>, files |-> fs]

\* BUILTINS[cmd](args, stdin=data)
Handler(cmd, args, stdin, fs) ==
    CASE cmd = <<"pwd">> -> builtin_pwd(args, stdin, fs)
      [] cmd = <<"cat">> -> builtin_cat(args, stdin, fs)
      [] cmd = <<"touch">> -> builtin_touch(args, stdin, fs)
      [] OTHER -> builtin_exit(args, stdin, fs)

\* ------------------------------------------------------------ run_pipeline
\* Downstream with the redirected text still piped on.
Downstream_KeepsPiping(out_path, out) == out

\* `if out_path: ... data = "" else: data = out_text`
Downstream(out_path, out) == IF Truthy(out_path) THEN <<>> ELSE out

\* FinalOutput printing whatever is not None.
FinalOutput_Always(d) == IF d # None THEN <<d>> ELSE <<>>

\* `if data: print(data, end="")`: the texts the final print writes.
FinalOutput(d) == IF Truthy(d) THEN <<d>> ELSE <<>>

\* `sys.stdout = old_stdout` after the handler returns, after it raises an
\* Exception, and before SystemExit is re-raised.
SinkOnReturn(old) == old

\* SinkOnError without the assignment.
SinkOnError_Leak(old) == "buf"

SinkOnError(old) == old

SinkOnExit(old) == old

\* MainExcept without the `except Exception` clause.
MainExcept_Unhandled(exc) ==
    IF exc = "KeyboardInterrupt" THEN "continue" ELSE "done"

\* The except clauses of main's loop: where the loop goes on each exception.
MainExcept(exc) ==
    CASE exc = "KeyboardInterrupt" -> "continue"
      [] exc = "EOFError" -> "done"
      [] exc = "SystemExit" -> "done"
      [] OTHER -> "continue"

Stage == pipeline[i]
Cmd == Stage.argv[1]
Args == Tail(Stage.argv)

AtStage == pc = "stage" /\ i <= Len(pipeline)

Call == [idx |-> i, cmd |-> Cmd, stdin |-> data]

\* `if not argv: continue`
SkipEmpty ==
    /\ AtStage
    /\ Stage.argv = <<>>
    /\ i' = i + 1
    /\ UNCHANGED <<pc, line, pipeline, data, out_text, sys_stdout, old_stdout,
                   printed, stderr, files, calls, rets, outcome, nlines, proc>>

\* `old_stdout = sys.stdout; buf = StringIO(); sys.stdout = buf`, then the
\* handler is entered.
BeginBuiltin ==
    /\ AtStage
    /\ Stage.argv # <<>>
    /\ Cmd \in BUILTINS
    /\ old_stdout' = sys_stdout
    /\ sys_stdout' = "buf"
    /\ pc' = "builtin"
    /\ calls' = Append(calls, Call)
    /\ UNCHANGED <<line, pipeline, i, data, out_text, printed, stderr, files,
                   rets, outcome, nlines, proc>>

\* The redirection block and the end of the loop body, for a stage whose
\* command produced `out`, emitted `diags` and left the files as `fs`.
Complete(out, diags, fs) ==
    LET redirected == Truthy(Stage.out_path)
        opens == Stage.out_path \in FilePaths
    IN  /\ out_text' = out
        /\ files' = IF redirected /\ opens
                    THEN Written(fs, Stage.out_path, out, Stage.append)
                    ELSE fs
        /\ stderr' = stderr \o diags \o
                        (IF redirected /\ ~opens
                         THEN <<Diag(i, None, "redirection error")>>
                         ELSE <<>>)
        /\ data' = Downstream(Stage.out_path, out)
        /\ rets' = Append(rets, [idx |-> i,
                                 ret |-> Downstream(Stage.out_path, out)])
        /\ i' = i + 1
        /\ pc' = "stage"

Handled == Handler(Cmd, Args, data, files)

\* The handler returns; `sys.stdout = old_stdout; out_text = buf.getvalue()`.
BuiltinReturn ==
    /\ pc = "builtin"
    /\ Handled.kind = "return"
    /\ sys_stdout' = SinkOnReturn(old_stdout)
    /\ Complete(Handled.out,
                [k \in 1..Len(Handled.diags) |->
                     Diag(i, Cmd, Handled.diags[k])],
                Handled.files)
    /\ UNCHANGED <<line, pipeline, old_stdout, printed, calls, outcome,
                   nlines, proc>>

\* `except Exception as e: sys.stdout = old_stdout; eprint(...); return`
BuiltinError ==
    /\ pc = "builtin"
    /\ Handled.kind = "raise"
    /\ sys_stdout' = SinkOnError(old_stdout)
    /\ stderr' = Append(stderr, Diag(i, Cmd, "error"))
    /\ files' = Handled.files
    /\ pc' = "continue"
    /\ outcome' = "aborted"
    /\ UNCHANGED <<line, pipeline, i, data, out_text, old_stdout, printed,
                   calls, rets, nlines, proc>>

\* `except SystemExit: sys.stdout = old_stdout; raise`, caught by main.
BuiltinExit ==
    /\ pc = "builtin"
    /\ Handled.kind = "exit"
    /\ sys_stdout' = SinkOnExit(old_stdout)
    /\ pc' = MainExcept("SystemExit")
    /\ outcome' = "exit"
    /\ UNCHANGED <<line, pipeline, i, data, out_text, old_stdout, printed,
                   stderr, files, calls, rets, nlines, proc>>

\* subprocess.Popen raises FileNotFoundError: eprint and return.
ExternalNotFound ==
    /\ AtStage
    /\ Stage.argv # <<>>
    /\ Cmd \notin BUILTINS
    /\ Cmd \notin Launchable
    /\ calls' = Append(calls, Call)
    /\ stderr' = Append(stderr, Diag(i, Cmd, "command not found"))
    /\ pc' = "continue"
    /\ outcome' = "aborted"
    /\ UNCHANGED <<line, pipeline, i, data, out_text, sys_stdout, old_stdout,
                   printed, files, rets, nlines, proc>>

\* The child after communicate has raised TimeoutExpired and run_pipeline's
\* `except Exception` has run: there is no proc.kill() and no proc.wait().
ChildAfterTimeout(p) == p

\* The child after a KeyboardInterrupt: out of communicate the child has
\* exited on the same signal or it has not; elsewhere it is as it was.
ChildAfterInterrupt(at, p) ==
    IF at = "external" THEN {"running", "exited"} ELSE {p}

\* subprocess.Popen succeeds; communicate(input=data, timeout=30) is entered.
BeginExternal ==
    /\ AtStage
    /\ Stage.argv # <<>>
    /\ Cmd \notin BUILTINS
    /\ Cmd \in Launchable
    /\ calls' = Append(calls, Call)
    /\ pc' = "external"
    /\ proc' = "running"
    /\ UNCHANGED <<line, pipeline, i, data, out_text, sys_stdout, old_stdout,
                   printed, stderr, files, rets, outcome, nlines>>

\* communicate returns (out_text, err); a non-empty err is eprinted.
ExternalReturn ==
    /\ pc = "external"
    /\ \E err \in BOOLEAN :
           Complete(PROG_OUT,
                    IF err THEN <<Diag(i, None, "stderr")>> ELSE <<>>,
                    files)
    /\ proc' = "exited"
    /\ UNCHANGED <<line, pipeline, sys_stdout, old_stdout, printed, calls,
                   outcome, nlines>>

\* communicate raises TimeoutExpired: `except Exception`, eprint and return.
\* Neither communicate nor the except clause kills or waits for the child.
ExternalTimeout ==
    /\ pc = "external"
    /\ stderr' = Append(stderr, Diag(i, Cmd, "error"))
    /\ pc' = "continue"
    /\ outcome' = "aborted"
    /\ proc' = ChildAfterTimeout(proc)
    /\ UNCHANGED <<line, pipeline, i, data, out_text, sys_stdout, old_stdout,
                   printed, files, calls, rets, nlines>>

\* The loop is over: `if data: print(data, end="")`, and run_pipeline returns.
PipelineEnd ==
    /\ pc = "stage"
    /\ i > Len(pipeline)
    /\ printed' = printed \o
                     [k \in 1..Len(FinalOutput(data)) |->
                          [sink |-> sys_stdout, text |-> FinalOutput(data)[k]]]
    /\ pc' = "continue"
    /\ outcome' = "returned"
    /\ UNCHANGED <<line, pipeline, i, data, out_text, sys_stdout, old_stdout,
                   stderr, files, calls, rets, nlines, proc>>

\* -------------------------------------------------------------------- main
\* The top of `while True`: the iteration before is over, its locals and the
\* logs of its output are gone, and session.prompt is entered.
Prompt ==
    /\ pc = "continue"
    /\ pc' = "prompt"
    /\ line' = <<>>
    /\ pipeline' = <<>>
    /\ i' = 1
    /\ data' = None
    /\ out_text' = <<>>
    /\ old_stdout' = "real"
    /\ printed' = <<>>
    /\ stderr' = <<>>
    /\ calls' = <<>>
    /\ rets' = <<>>
    /\ outcome' = "prompt"
    /\ proc' = "None"
    /\ UNCHANGED <<sys_stdout, files, nlines>>

\* parse_command_line on the lines of the prompt, tabulated.
Parsed == [l \in InputLines |-> parse_command_line(l)]

\* session.prompt returns line l: the blank line, the help line, or
\* `pipeline = parse_command_line(line)` and the call of run_pipeline.
ReadLine(l) ==
    /\ pc = "prompt"
    /\ nlines < MaxLines
    /\ nlines' = nlines + 1
    /\ line' = l
    /\ UNCHANGED <<out_text, sys_stdout, old_stdout, files, calls, rets,
                   proc>>
    /\ IF Strip(l) = <<>>
       THEN /\ outcome' = "blank"
            /\ pc' = "continue"
            /\ UNCHANGED <<pipeline, i, data, printed, stderr>>
       ELSE IF Strip(l) = <<"help">>
       THEN /\ outcome' = "help"
            /\ printed' = <<[sink |-> sys_stdout, text |-> <<"Builtins">>],
                            [sink |-> sys_stdout, text |-> <<"Supports">>]>>
            /\ pc' = "continue"
            /\ UNCHANGED <<pipeline, i, data, stderr>>
       ELSE IF Parsed[l].raised
       THEN /\ outcome' = "shell_error"
            /\ stderr' = <<Diag(0, None, "Shell error")>>
            /\ pc' = MainExcept("Exception")
            /\ UNCHANGED <<pipeline, i, data, printed>>
       ELSE /\ outcome' = "running"
            /\ pipeline' = Parsed[l].pipeline
            /\ i' = 1
            /\ data' = None
            /\ pc' = "stage"
            /\ UNCHANGED <<printed, stderr>>

\* `except KeyboardInterrupt: print("^C"); continue`.  The interrupt arrives
\* at the prompt, inside a handler or inside communicate.
Interrupt ==
    /\ pc \in {"prompt", "builtin", "external"}
    /\ sys_stdout' = IF pc = "builtin" THEN "stale" ELSE sys_stdout
    /\ printed' = Append(printed,
                         [sink |-> IF pc = "builtin" THEN "stale"
                                   ELSE sys_stdout,
                          text |-> <<"^C">>])
    /\ pc' = MainExcept("KeyboardInterrupt")
    /\ outcome' = "interrupted"
    /\ proc' \in ChildAfterInterrupt(pc, proc)
    /\ UNCHANGED <<line, pipeline, i, data, out_text, old_stdout, stderr,
                   files, calls, rets, nlines>>

\* `except EOFError: print("exit"); break`
EndOfInput ==
    /\ pc = "prompt"
    /\ printed' = <<[sink |-> sys_stdout, text |-> <<"exit">>]>>
    /\ pc' = MainExcept("EOFError")
    /\ outcome' = "eof"
    /\ UNCHANGED <<line, pipeline, i, data, out_text, sys_stdout, old_stdout,
                   stderr, files, calls, rets, nlines, proc>>

Init ==
    /\ pc = "continue"
    /\ line = <<>>
    /\ pipeline = <<>>
    /\ i = 1
    /\ data = None
    /\ out_text = <<>>
    /\ sys_stdout = "real"
    /\ old_stdout = "real"
    /\ printed = <<[sink |-> "real", text |-> <<"Welcome">>]>>
    /\ stderr = <<>>
    /\ files = [p \in FilePaths |-> Absent]
    /\ calls = <<>>
    /\ rets = <<>>
    /\ outcome = "start"
    /\ nlines = 0
    /\ proc = "None"

Next ==
    \/ Prompt
    \/ (pc = "prompt" /\ \E l \in InputLines : ReadLine(l))
    \/ SkipEmpty
    \/ BeginBuiltin
    \/ BuiltinReturn
    \/ BuiltinError
    \/ BuiltinExit
    \/ ExternalNotFound
    \/ BeginExternal
    \/ ExternalReturn
    \/ ExternalTimeout
    \/ PipelineEnd
    \/ Interrupt
    \/ EndOfInput

Spec == Init /\ [][Next]_vars

\* --------------------------------------------- the parser on every short line
ParseInit ==
    /\ pc = "parse"
    /\ line \in AllLines
    /\ pipeline = <<>>
    /\ i = 1
    /\ data = None
    /\ out_text = <<>>
    /\ sys_stdout = "real"
    /\ old_stdout = "real"
    /\ printed = <<>>
    /\ stderr = <<>>
    /\ files = [p \in FilePaths |-> Absent]
    /\ calls = <<>>
    /\ rets = <<>>
    /\ outcome = "start"
    /\ nlines = 0
    /\ proc = "None"

\* `pipeline = parse_command_line(line)`
ParseLine ==
    /\ pc = "parse"
    /\ LET r == parse_command_line(line)
       IN  /\ pc' = IF r.raised THEN "parse_raised" ELSE "parsed"
           /\ pipeline' = r.pipeline
    /\ UNCHANGED <<line, i, data, out_text, sys_stdout, old_stdout, printed,
                   stderr, files, calls, rets, outcome, nlines, proc>>

ParseNext == ParseLine

ParseSpec == ParseInit /\ [][ParseNext]_vars

\* ==================================================================== claims
\* run_pipeline was left by `return`, by the end of the loop or by SystemExit
\* (no interrupt): the state main's loop sees right after the call.
RunOver == pc \in {"continue", "done"}
           /\ outcome \in {"returned", "aborted", "exit"}

InRun == pc \in {"stage", "builtin", "external"}

Started(k) == \E c \in 1..Len(calls) : calls[c].idx = k

NonEmpty(k) == pipeline[k].argv # <<>>

\* The first stage after k that names a command, if there is one.
LaterStages(k) == {j \in (k + 1)..Len(pipeline) : NonEmpty(j)}

NextStageRan(k) ==
    LaterStages(k) # {} =>
        Started(CHOOSE j \in LaterStages(k) : \A h \in LaterStages(k) : j <= h)

IsExit(k) == NonEmpty(k) /\ pipeline[k].argv[1] \in {<<"exit">>, <<"quit">>}

DiagsOf(k) == {d \in 1..Len(stderr) : stderr[d].idx = k}

\* A step that completes a stage: the handler or the program has returned and
\* the redirection block has run.
StageDone == pc \in {"builtin", "external"} /\ pc' = "stage"

\* A step that leaves a builtin stage by one of run_pipeline's three paths:
\* the handler returned, raised an Exception or raised SystemExit.
LeaveBuiltin == pc = "builtin" /\ pc' # "builtin" /\ outcome' # "interrupted"

\* parse_command_line has just returned the pipeline of the line.
JustParsed == outcome = "running" /\ pc = "stage" /\ i = 1

\* Segment k of the line as typed, stripped.
Segment(k) == Strip(SplitOn(line, PIPE)[k])

\* The first whitespace-delimited word after the first op of text, or None.
TargetAfter(text, op) ==
    LET k == FirstOccurrence(text, op)
        rest == SubSeq(text, k + Len(op), Len(text))
    IN  IF \A j \in 1..Len(rest) : rest[j] \in Whitespace
        THEN None ELSE FirstWord(rest)

\* C1: once run_pipeline is over, a stage whose command is neither a builtin
\* nor a launchable program has left exactly one diagnostic, which names the
\* command, and the next stage of the pipeline has run.
C1_UnknownCommandContinues ==
    RunOver =>
        \A k \in 1..Len(pipeline) :
            (NonEmpty(k) /\ Started(k)
             /\ pipeline[k].argv[1] \notin BUILTINS
             /\ pipeline[k].argv[1] \notin Launchable)
            => /\ Cardinality(DiagsOf(k)) = 1
               /\ \A d \in DiagsOf(k) : stderr[d].name = pipeline[k].argv[1]
               /\ NextStageRan(k)

\* C2: once run_pipeline is over, a pipeline that has exit (or quit) as the
\* command of a stage has ended the read loop, has run no stage after that
\* one and has printed no final output.
C2_ExitAnywhereTerminates ==
    RunOver =>
        \A k \in 1..Len(pipeline) :
            IsExit(k) => /\ pc = "done"
                         /\ \A j \in LaterStages(k) : ~Started(j)
                         /\ printed = <<>>

\* C6: parse_command_line returns a pipeline for every line; it never raises.
C6_ParseNeverRaises == pc # "parse_raised"

\* The pipe-separated segments of the line that hold something besides
\* whitespace.
NonEmptySegments ==
    {k \in 1..Len(SplitOn(line, PIPE)) : Strip(SplitOn(line, PIPE)[k]) # <<>>}

NumPipes == Cardinality({k \in 1..Len(line) : line[k] = PIPE})

\* C7 as claimed: the pipeline returned has as many stages as the line has
\* non-empty pipe-separated segments.
C7_StagesAreNonEmptySegments ==
    pc = "parsed" => Len(pipeline) = Cardinality(NonEmptySegments)

\* C7 as amended: the pipeline returned has one stage per pipe-separated
\* segment, the number of pipes plus one, and the stage of an empty or
\* whitespace-only segment has an empty argv and no redirection target.
C7_OneStagePerSegment ==
    pc = "parsed" =>
        /\ Len(pipeline) = NumPipes + 1
        /\ \A k \in 1..Len(pipeline) :
               k \notin NonEmptySegments
               => pipeline[k] = [argv |-> <<>>, out_path |-> None,
                                 append |-> FALSE]

\* A line with an empty segment between two commands has been parsed.
C7_Witness ==
    /\ pc = "parsed"
    /\ Len(pipeline) = 3
    /\ pipeline[1].argv # <<>>
    /\ pipeline[2].argv = <<>>
    /\ pipeline[3].argv # <<>>

\* C8: once run_pipeline is over, a builtin stage that reported an error
\* (a diagnostic of its own, or an exception run_pipeline reports for it) has
\* been followed by the next stage of the pipeline.
C8_BuiltinErrorContinues ==
    RunOver =>
        \A k \in 1..Len(pipeline) :
            (NonEmpty(k) /\ pipeline[k].argv[1] \in BUILTINS
             /\ DiagsOf(k) # {})
            => NextStageRan(k)

\* C3, in every state: a stage that started after a redirected stage got
\* empty input, and a pipeline whose last completed stage was redirected
\* printed nothing.
C3_DownstreamEmpty ==
    /\ \A c \in 2..Len(calls) :
           Truthy(pipeline[rets[c - 1].idx].out_path) => calls[c].stdin = <<>>
    /\ (outcome = "returned" /\ rets # <<>>
        /\ Truthy(pipeline[rets[Len(rets)].idx].out_path))
       => printed = <<>>

\* C3, in every step that completes a redirected stage: the text handed on is
\* empty; a target that opens holds the captured output (after what it held,
\* in append mode); a target that does not open changes no file and leaves a
\* diagnostic.
C3_RedirectStep ==
    (StageDone /\ Truthy(Stage.out_path)) =>
        /\ data' = <<>>
        /\ out_text' = IF pc = "builtin" THEN Handled.out ELSE PROG_OUT
        /\ IF Stage.out_path \in FilePaths
           THEN /\ files'[Stage.out_path] =
                       IF Stage.append /\ files[Stage.out_path] # Absent
                       THEN files[Stage.out_path] \o out_text'
                       ELSE out_text'
                /\ \A d \in (Len(stderr) + 1)..Len(stderr') :
                       stderr'[d].kind # "redirection error"
           ELSE /\ files' = files
                /\ stderr'[Len(stderr')].kind = "redirection error"

\* C3: a redirected stage whose command runs writes its captured output to
\* the target and hands empty text downstream, also when the write fails.
C3_RedirectSeversPipe == []C3_DownstreamEmpty /\ [][C3_RedirectStep]_vars

\* A redirection whose target opened, one whose target did not, and a stage
\* after them that got empty input.
C3_Witness ==
    /\ outcome = "returned"
    /\ line = <<"pwd", GT, GT, "f", PIPE, "pwd", GT, "x", PIPE, "cat">>
    /\ files[<<"f">>] = CWD
    /\ \E d \in 1..Len(stderr) : stderr[d].kind = "redirection error"
    /\ calls[3].stdin = <<>>
    /\ printed = <<>>

\* C4, of a parsed pipeline: a segment that holds >> is a stage in append
\* mode whose target is the word after the first >>; a segment that holds >
\* only is a stage in truncate mode whose target is the word after the first >.
C4_ParsedMode ==
    \A k \in 1..Len(pipeline) :
        IF Contains(Segment(k), <<GT, GT>>)
        THEN /\ pipeline[k].append
             /\ pipeline[k].out_path = TargetAfter(Segment(k), <<GT, GT>>)
        ELSE IF Contains(Segment(k), <<GT>>)
        THEN /\ ~pipeline[k].append
             /\ pipeline[k].out_path = TargetAfter(Segment(k), <<GT>>)
        ELSE pipeline[k].out_path = None

\* C4, in every step that completes a stage typed with >> or > and a target
\* that opens: >> leaves the file holding what it held followed by the
\* captured output, > leaves it holding the captured output alone.
C4_WriteStep ==
    StageDone =>
        IF Contains(Segment(i), <<GT, GT>>)
        THEN LET t == TargetAfter(Segment(i), <<GT, GT>>)
             IN  t \in FilePaths =>
                     files'[t] = (IF files[t] = Absent THEN <<>> ELSE files[t])
                                     \o out_text'
        ELSE IF Contains(Segment(i), <<GT>>)
        THEN LET t == TargetAfter(Segment(i), <<GT>>)
             IN  t \in FilePaths => files'[t] = out_text'
        ELSE TRUE

\* C4, the first line of a session (f does not exist yet): pwd >> f run n
\* times leaves f holding n outputs in a row; pwd > f, run once, twice or
\* after two pwd >> f, leaves one output.
C4_Runs ==
    (outcome = "returned" /\ nlines = 1) =>
        LET app == <<"pwd", GT, GT, "f">>
            trunc == <<"pwd", SP, GT, SP, "f">>
        IN  /\ \A n \in 1..MaxSegs :
                   line = Join([k \in 1..n |-> app])
                       => files[<<"f">>] = [k \in 1..n |-> "CWD"]
            /\ line \in {trunc, Join(<<trunc, trunc>>),
                         Join(<<app, app, trunc>>)}
                   => files[<<"f">>] = CWD

\* C4: >> parses to append mode and n runs of such a stage concatenate their
\* outputs in the target, where n runs of a > stage leave the last output.
C4_AppendConcatenates ==
    []((JustParsed => C4_ParsedMode) /\ C4_Runs) /\ [][C4_WriteStep]_vars

\* Three runs of pwd >> f in the second line of a session, on the file the
\* first line left.
C4_Witness ==
    /\ outcome = "returned"
    /\ nlines = 2
    /\ Len(rets) = 3
    /\ \A k \in 1..3 : pipeline[k].append /\ pipeline[k].out_path = <<"f">>
    /\ Len(files[<<"f">>]) > 3

\* C5: stages start one at a time and left to right, skipping only stages
\* with no command; the first gets None, each later one gets the text the
\* stage before it returned, after that stage completed; nothing is printed
\* during the run, and the end of the loop prints the threaded text once if it
\* is non-empty and nothing if it is empty.
C5_ThreadedLeftToRight ==
    /\ Len(rets) <= Len(calls)
    /\ Len(calls) <= Len(rets) + 1
    /\ pc = "stage" => Len(calls) = Len(rets)
    /\ pc \in {"builtin", "external"} => Len(calls) = Len(rets) + 1
    /\ \A c \in 1..Len(calls) :
           /\ NonEmpty(calls[c].idx)
           /\ calls[c].cmd = pipeline[calls[c].idx].argv[1]
           /\ c = 1 => /\ calls[c].stdin = None
                       /\ \A j \in 1..(calls[c].idx - 1) : ~NonEmpty(j)
           /\ c > 1 => /\ rets[c - 1].idx = calls[c - 1].idx
                       /\ calls[c].stdin = rets[c - 1].ret
                       /\ calls[c - 1].idx < calls[c].idx
                       /\ \A j \in (calls[c - 1].idx + 1)..(calls[c].idx - 1) :
                              ~NonEmpty(j)
    /\ InRun => printed = <<>>
    /\ outcome = "returned" =>
           /\ \A k \in 1..Len(pipeline) : NonEmpty(k) => Started(k)
           /\ data = IF rets = <<>> THEN None ELSE rets[Len(rets)].ret
           /\ printed = IF Truthy(data)
                        THEN <<[sink |-> sys_stdout, text |-> data]>>
                        ELSE <<>>

\* pwd | cat has run: cat got what pwd printed, and it was printed once.
C5_Witness ==
    /\ outcome = "returned"
    /\ Len(calls) = 2
    /\ calls[1].stdin = None
    /\ calls[2].stdin = CWD
    /\ printed = <<[sink |-> "real", text |-> CWD]>>

\* C9, in every step: the loop ends only by the SystemExit of an exit stage
\* (or at the end of input, which is no input line), and a step that emits a
\* diagnostic does not end it.
C9_Step ==
    /\ (pc # "done" /\ pc' = "done") =>
           \/ outcome' = "eof" /\ pc = "prompt"
           \/ outcome' = "exit" /\ pc = "builtin" /\ IsExit(i)
    /\ Len(stderr') > Len(stderr) => pc' \in {"continue", "stage"}

\* C9, in every state: after a line that failed to parse, a pipeline that was
\* aborted by a failing stage, or a pipeline that returned with diagnostics,
\* the loop is at its top, about to prompt for the next line.
C9_LoopAlive ==
    outcome \in {"shell_error", "aborted", "returned", "blank", "help"}
        => pc = "continue"

\* C9: only a fatal-exit signal ends the read loop; malformed input, builtin
\* errors, external failures and redirection failures do not.
C9_OnlyExitEndsLoop == []C9_LoopAlive /\ [][C9_Step]_vars

\* The second line of a session failed to parse (ValueError from shlex), main
\* reported it, and the loop is at its top again.
C9_Witness ==
    /\ pc = "continue"
    /\ outcome = "shell_error"
    /\ nlines = 2

\* C10, in every step: entering a builtin stage saves the sink and installs
\* the buffer; leaving it installs the saved sink again; outside a handler a
\* real sink stays real.
C10_Step ==
    /\ (pc # "builtin" /\ pc' = "builtin")
           => old_stdout' = sys_stdout /\ sys_stdout' = "buf"
    /\ LeaveBuiltin => sys_stdout' = old_stdout
    /\ (pc # "builtin" /\ pc' # "builtin" /\ sys_stdout = "real")
           => sys_stdout' = "real"

C11_InterruptKeepsState ==
    /\ (outcome = "interrupted" /\ calls # <<>>)
           => /\ pc = "continue"
              /\ sys_stdout = "real"
              /\ \A c \in 1..Len(calls) : calls[c].idx <= i
              /\ \A k \in 1..Len(printed) :
                     printed[k].sink = "real" => printed[k].text = <<"^C">>
    /\ pc = "prompt" => sys_stdout = "real"

\* Stage k was launched and communicate did not return within the bounded
\* wait: run_pipeline reported `<cmd>: error: ...` for a launched program.
TimedOut(k) ==
    /\ NonEmpty(k)
    /\ pipeline[k].argv[1] \in Launchable
    /\ \E d \in DiagsOf(k) : stderr[d].kind = "error"

\* C12: once run_pipeline is over, a stage whose program was still running
\* at the end of the bounded wait has left exactly one diagnostic, was
\* started once, has no child left running, and the next stage of the
\* pipeline has run.
C12_TimeoutTerminatesChild ==
    RunOver =>
        \A k \in 1..Len(pipeline) :
            TimedOut(k)
            => /\ Cardinality(DiagsOf(k)) = 1
               /\ Cardinality({c \in 1..Len(calls) : calls[c].idx = k}) = 1
               /\ proc # "running"
               /\ NextStageRan(k)
====
